---- MODULE Spec2Model ----
(***************************************************************************)
(* A model of VanishClient (src/src/vanish.ts): the request primitive, the *)
(* seven single-request operations built on it and the pollForEmails loop. *)
(* One client serves one invocation at a time; once the caller has taken   *)
(* the result of an invocation it may start another.  Every await of the   *)
(* code is a step boundary: an action is the synchronous code that runs    *)
(* between two awaits.                                                     *)
(***************************************************************************)
EXTENDS Integers, Sequences, FiniteSets, TLC

\* ------------------------------------------------------------------ bounds
MaxTimeout == 3      \* pollForEmails timeout argument ranges over 0..MaxTimeout
MaxInterval == 2     \* pollForEmails interval argument ranges over 1..MaxInterval
MaxCount == 1        \* pollForEmails initialCount ranges over 0..MaxCount
MaxStepDur == 1      \* clock ticks that pass while one await of request() is pending

\* --------------------------------------------------------------- JS values
Undefined == "undefined"          \* the JavaScript value undefined
NoStatus == 0                     \* VanishError.statusCode left undefined

\* `if (x)` / `x || y` on a string-or-undefined value
Truthy(v) == v # Undefined /\ v # ""

ApiKeys == {Undefined, "", "secret"}

\* GenerateEmailOptions objects: any subset of the keys, each key holding
\* undefined or a string.
OptionKeys == {"domain", "prefix"}
OptionValues == {Undefined, "vanish.host"}
OptionObjects == UNION {[K -> OptionValues] : K \in SUBSET OptionKeys}

\* JSON.stringify of an object drops the keys whose value is undefined.
JsonStringify(obj) == [k \in {x \in DOMAIN obj : obj[x] # Undefined} |-> obj[k]]

NoBody == [present |-> FALSE, json |-> <<>>]

\* body: options.body ? JSON.stringify(options.body) : undefined
\* (an object is truthy whatever its keys)
RequestBody(body) ==
    IF body.present THEN [present |-> TRUE, json |-> JsonStringify(body.json)]
    ELSE NoBody

\* Object.keys(options).length > 0 ? options : undefined
GenerateEmailBody(options) ==
    IF Cardinality(DOMAIN options) > 0 THEN [present |-> TRUE, json |-> options]
    ELSE NoBody

\* Object.entries(params).filter(([, v]) => v !== undefined)
QueryString(params) == [k \in {x \in DOMAIN params : params[x] # Undefined} |-> params[k]]

\* Variant: the header test written as apiKey !== undefined.
HeadersWheneverDefined(key) ==
    IF key # Undefined
    THEN ("Content-Type" :> "application/json") @@ ("Authorization" :> ("Bearer " \o key))
    ELSE ("Content-Type" :> "application/json")

\* headers of request(): Content-Type always, Authorization if (this.apiKey)
Headers(key) ==
    IF Truthy(key)
    THEN ("Content-Type" :> "application/json") @@ ("Authorization" :> ("Bearer " \o key))
    ELSE ("Content-Type" :> "application/json")

\* ---------------------------------------------------------------- responses
Statuses == {200, 404, 500}
ResponseOk(status) == status >= 200 /\ status <= 299
StatusText(status) ==
    CASE status = 200 -> "OK"
      [] status = 404 -> "Not Found"
      [] status = 500 -> "Internal Server Error"

\* EmailSummary rows as the server sends them (receivedAt is text).
Mail1 == [id |-> "m1", receivedAt |-> "2024-01-01T00:00:00.000Z"]
Mail2 == [id |-> "m2", receivedAt |-> "not a date"]
DataLists == {<<>>, <<Mail1>>, <<Mail2, Mail1>>}
Totals == 0 .. (MaxCount + 1)

\* new Date(text): an instant for ISO text, Invalid Date otherwise
ToDate(text) ==
    IF text = "2024-01-01T00:00:00.000Z"
    THEN [valid |-> TRUE, instant |-> "2024-01-01T00:00:00.000Z"]
    ELSE [valid |-> FALSE, instant |-> "NaN"]

\* resp.data.map((e) => ({...e, receivedAt: new Date(e.receivedAt)}))
ConvertData(data) ==
    [i \in 1 .. Len(data) |-> [id |-> data[i].id, receivedAt |-> ToDate(data[i].receivedAt)]]

\* A response body: no bytes, bytes that are not JSON, the JSON value null, or
\* a JSON object.  An object may carry an error field, and may or may not have
\* the property the operation reads (payload); list bodies carry total and data.
ErrorFields == {Undefined, "", "bad id"}
PlainBody(kind, err, payload) ==
    [kind |-> kind, error |-> err, payload |-> payload, total |-> 0, data |-> <<>>]
ErrorBodies ==
    {PlainBody(k, Undefined, FALSE) : k \in {"absent", "garbage", "null"}}
    \cup {PlainBody("object", e, FALSE) : e \in ErrorFields}
BrokenBodies ==
    {PlainBody(k, Undefined, FALSE) : k \in {"absent", "garbage", "null", "object"}}
ListBodies ==
    {[kind |-> "object", error |-> Undefined, payload |-> TRUE, total |-> t, data |-> d] :
        t \in Totals, d \in DataLists}
SuccessBodies(name) ==
    IF name \in {"listEmails", "pollForEmails"} THEN BrokenBodies \cup ListBodies
    ELSE BrokenBodies \cup {PlainBody("object", Undefined, TRUE)}

NoResponse == [status |-> NoStatus, body |-> PlainBody("absent", Undefined, FALSE)]

\* ------------------------------------------------------------------ errors
NoError == [class |-> "none", message |-> "", statusCode |-> NoStatus]
VanishError(message, statusCode) ==
    [class |-> "VanishError", message |-> message, statusCode |-> statusCode]
TypeError == [class |-> "TypeError", message |-> "Cannot read properties", statusCode |-> NoStatus]

\* ------------------------------------------------------------------ values
NoValue == [tag |-> "none", total |-> 0, data |-> <<>>]
Value(tag) == [tag |-> tag, total |-> 0, data |-> <<>>]
ListValue(body) == [tag |-> "list", total |-> body.total, data |-> ConvertData(body.data)]
ItemValue(item) == [tag |-> "item", total |-> 0, data |-> <<item>>]
NullValue == Value("null")

NoOutcome == [kind |-> "none", error |-> NoError, value |-> NoValue]
Returned(v) == [kind |-> "returned", error |-> NoError, value |-> v]
Thrown(e) == [kind |-> "thrown", error |-> e, value |-> NoValue]


\* --------------------------------------------------------------- operations
Operations ==
    {"getDomains", "generateEmail", "listEmails", "getEmail", "getAttachment",
     "deleteEmail", "deleteMailbox", "pollForEmails"}

NoOptions == [given |-> FALSE, obj |-> <<>>]
Call(name, options, timeout, interval, initialCount) ==
    [name |-> name, options |-> options, timeout |-> timeout,
     interval |-> interval, initialCount |-> initialCount]
Plain(name) == Call(name, NoOptions, 0, 0, 0)
NoOp == Plain("none")

NoParams == <<>>
NoRequest ==
    [method |-> "", path |-> "", query |-> <<>>, headers |-> <<>>, body |-> NoBody,
     raw |-> FALSE]

VARIABLES
    apiKey,     \* this.apiKey, fixed by the constructor
    op,         \* the public operation in progress and its arguments
    pc,         \* where the invocation is suspended: idle, fetch, errBody,
                \* jsonBody, rawBody, sleep, done
    req,        \* the request last handed to fetch
    response,   \* the Response fetch resolved with (local to request())
    outcome,    \* what the public operation returned or threw
    fetches,    \* fetch calls made since the invocation in progress began
    now,        \* Date.now(), counted from the start of the invocation
    deadline,   \* pollForEmails: const deadline
    checks,     \* pollForEmails: what each completed listEmails call answered
    callStart,  \* pollForEmails: clock reading when the last listEmails call began
    checkDur,   \* pollForEmails: how long the last finished listEmails call took
    timedOut,   \* the abort timer of the current request has fired
    reqError,   \* the error the last request() call threw, if it threw
    listError   \* pollForEmails: the error its last listEmails call threw, if any

vars ==
    <<apiKey, op, pc, req, response, outcome, fetches, now, deadline, checks,
      callStart, checkDur, timedOut, reqError, listError>>

\* constructor: apiKey = options.apiKey; nothing is in flight
Init ==
    /\ apiKey \in ApiKeys
    /\ op = NoOp
    /\ pc = "idle"
    /\ req = NoRequest
    /\ response = NoResponse
    /\ outcome = NoOutcome
    /\ fetches = 0
    /\ now = 0
    /\ deadline = 0
    /\ checks = <<>>
    /\ callStart = 0
    /\ checkDur = 0
    /\ timedOut = FALSE
    /\ reqError = NoError
    /\ listError = NoError

\* request(), up to its first await: build url, headers and body, arm the
\* abort timer, call fetch.
request(method, path, params, body, rawResponse) ==
    /\ req' = [method |-> method, path |-> path, query |-> QueryString(params),
               headers |-> Headers(apiKey), body |-> RequestBody(body),
               raw |-> rawResponse]
    /\ response' = NoResponse
    /\ timedOut' = FALSE
    /\ reqError' = NoError
    /\ pc' = "fetch"

\* A public operation returns or throws to its caller.
Finish(out) ==
    /\ pc' = "done"
    /\ outcome' = out

\* Variant: a deadline one tick late.
DeadlineOffByOne(start, timeout) == start + timeout + 1
\* Date.now() + timeout
Deadline(start, timeout) == start + timeout

\* Variant: the loop test written with <=.
LoopConditionInclusive(t, dl) == t <= dl
\* while (Date.now() < deadline)
LoopCondition(t, dl) == t < dl

\* The head of the pollForEmails loop at clock reading t: another listEmails
\* call with limit 1 while the deadline is ahead, return null otherwise.
PollLoop(t, dl, issued, started) ==
    /\ now' = t
    /\ IF LoopCondition(t, dl)
       THEN /\ request("GET", "/mailbox/a%40vanish.host",
                       [limit |-> "1", cursor |-> Undefined], NoBody, FALSE)
            /\ fetches' = issued + 1
            /\ callStart' = t
            /\ outcome' = NoOutcome
       ELSE /\ Finish(Returned(NullValue))
            /\ response' = NoResponse
            /\ timedOut' = FALSE
            /\ reqError' = NoError
            /\ fetches' = issued
            /\ callStart' = started
            /\ UNCHANGED req

\* A fresh invocation of a single-request operation.
Begin(call) ==
    /\ pc = "idle"
    /\ op' = call
    /\ outcome' = NoOutcome
    /\ fetches' = 1
    /\ now' = 0
    /\ UNCHANGED <<apiKey, deadline, checks, callStart, checkDur, listError>>

getDomains ==
    /\ Begin(Plain("getDomains"))
    /\ request("GET", "/domains", NoParams, NoBody, FALSE)

generateEmail ==
    \E arg \in [given : {FALSE}, obj : {<<>>}] \cup [given : {TRUE}, obj : OptionObjects] :
        /\ Begin(Call("generateEmail", arg, 0, 0, 0))
        /\ request("POST", "/mailbox", NoParams, GenerateEmailBody(arg.obj), FALSE)

ListLimits == {Undefined, "0", "20"}
ListCursors == {Undefined, "", "c1"}

listEmails ==
    \E limit \in ListLimits, cursor \in ListCursors :
        /\ Begin(Plain("listEmails"))
        /\ request("GET", "/mailbox/a%40vanish.host",
                   [limit |-> limit, cursor |-> cursor], NoBody, FALSE)

getEmail ==
    /\ Begin(Plain("getEmail"))
    /\ request("GET", "/email/e1", NoParams, NoBody, FALSE)

getAttachment ==
    /\ Begin(Plain("getAttachment"))
    /\ request("GET", "/email/e1/attachments/at1", NoParams, NoBody, TRUE)

deleteEmail ==
    /\ Begin(Plain("deleteEmail"))
    /\ request("DELETE", "/email/e1", NoParams, NoBody, FALSE)

deleteMailbox ==
    /\ Begin(Plain("deleteMailbox"))
    /\ request("DELETE", "/mailbox/a%40vanish.host", NoParams, NoBody, FALSE)

pollForEmails ==
    \E timeout \in 0 .. MaxTimeout, interval \in 1 .. MaxInterval,
       initialCount \in 0 .. MaxCount :
        /\ pc = "idle"
        /\ op' = Call("pollForEmails", NoOptions, timeout, interval, initialCount)
        /\ deadline' = Deadline(0, timeout)
        /\ PollLoop(0, Deadline(0, timeout), 0, 0)
        /\ UNCHANGED <<apiKey, checks, checkDur, listError>>


\* ------------------------------------------------- after an await resolves
\* Ticks that pass while an await is pending.  Only pollForEmails reads the
\* clock, so the clock stands still for the other operations.
Elapsed == IF op.name = "pollForEmails" THEN 0 .. MaxStepDur ELSE {0}

\* What the responses of pollForEmails' listEmails calls said, in the terms
\* of the polling contract: the baseline total, one more than the baseline
\* with an item, or anything else.
Answer(list, initialCount) ==
    IF list.total = initialCount THEN "baseline"
    ELSE IF list.total = initialCount + 1 /\ Len(list.data) >= 1 THEN "new"
    ELSE "other"

\* Variant: the length test written as > 1.
QualifiesOffByOne(list, initialCount) ==
    list.total > initialCount /\ Len(list.data) > 1
\* result.total > initialCount && result.data.length > 0
Qualifies(list, initialCount) ==
    list.total > initialCount /\ Len(list.data) > 0

\* Variant: the poll catches the error of listEmails and sleeps on.
PollSwallowsError(e, t) ==
    /\ pc' = "sleep"
    /\ outcome' = outcome
    /\ now' = t
    /\ checks' = Append(checks, "other")
    /\ response' = NoResponse
\* pollForEmails has no try/catch: an error of listEmails leaves it at once.
PollOnError(e, t) ==
    /\ Finish(Thrown(e))
    /\ now' = t
    /\ checks' = checks
    /\ response' = response

\* pollForEmails after its listEmails call returned list at clock reading t:
\* return data[0], or start the sleep of interval milliseconds.
PollAfterList(list, t) ==
    /\ now' = t
    /\ checks' = Append(checks, Answer(list, op.initialCount))
    /\ checkDur' = t - callStart
    /\ listError' = NoError
    /\ IF Qualifies(list, op.initialCount)
       THEN /\ Finish(Returned(ItemValue(list.data[1])))
            /\ response' = response
       ELSE /\ pc' = "sleep"
            /\ outcome' = outcome
            /\ response' = NoResponse

\* An error e leaves the awaited call of the public operation at clock
\* reading t; no public operation catches it.
OpThrows(e, t) ==
    IF op.name = "pollForEmails"
    THEN /\ listError' = e
         /\ checkDur' = t - callStart
         /\ PollOnError(e, t)
    ELSE /\ Finish(Thrown(e))
         /\ now' = t
         /\ UNCHANGED <<listError, checkDur, checks, response>>

\* What a public operation does with the parsed body request() returned:
\* resp.<property> throws a TypeError on null; listEmails also calls
\* resp.data.map, which throws when data is missing.
PostProcess(name, body) ==
    CASE name = "getAttachment" -> Returned(Value("raw"))
      [] name \in {"listEmails", "pollForEmails"} ->
            IF body.kind = "null" \/ ~body.payload THEN Thrown(TypeError)
            ELSE Returned(ListValue(body))
      [] OTHER ->
            IF body.kind = "null" THEN Thrown(TypeError)
            ELSE IF body.payload THEN Returned(Value("payload"))
            ELSE Returned(Value("undefined"))

\* request() returned body to the public operation at clock reading t.
RequestReturns(body, t) ==
    LET r == PostProcess(op.name, body) IN
    /\ UNCHANGED <<req, fetches, callStart, reqError>>
    /\ IF r.kind = "thrown" THEN OpThrows(r.error, t)
       ELSE IF op.name = "pollForEmails" THEN PollAfterList(r.value, t)
       ELSE /\ Finish(r)
            /\ now' = t
            /\ UNCHANGED <<listError, checkDur, checks, response>>

\* Variant: a failed request is sent again.
RequestRetries(e, t) ==
    /\ reqError' = e
    /\ pc' = "fetch"
    /\ fetches' = fetches + 1
    /\ now' = t
    /\ UNCHANGED <<req, callStart, outcome, listError, checkDur, checks, response>>
\* request() throws e (lines 163, 172-176); the error reaches the caller of
\* the public operation.
RequestThrows(e, t) ==
    /\ reqError' = e
    /\ OpThrows(e, t)
    /\ UNCHANGED <<req, fetches, callStart>>

\* Variant: the fallback written with ?? in place of ||.
ErrorMessageNullish(body, statusText) ==
    IF body.kind = "object" /\ body.error # Undefined THEN body.error ELSE statusText
\* errorBody.error || response.statusText, statusText when json() or the
\* property read throws
ErrorMessage(body, statusText) ==
    IF body.kind = "object" /\ Truthy(body.error) THEN body.error ELSE statusText

\* fetch resolves with a Response; request() goes on to read its body.
FetchResolve ==
    \E status \in Statuses, dt \in Elapsed :
      \E body \in (IF ResponseOk(status) THEN SuccessBodies(op.name) ELSE ErrorBodies) :
        /\ pc = "fetch"
        /\ response' = [status |-> status, body |-> body]
        /\ pc' = IF ~ResponseOk(status) THEN "errBody"
                 ELSE IF req.raw THEN "rawBody" ELSE "jsonBody"
        /\ now' = now + dt
        /\ UNCHANGED <<apiKey, op, req, outcome, fetches, deadline, checks, callStart,
                       checkDur, timedOut, reqError, listError>>

\* The abort timer fires while fetch is pending: fetch rejects with an
\* AbortError DOMException.
FetchAbort ==
    \E dt \in Elapsed :
        /\ pc = "fetch"
        /\ timedOut' = TRUE
        /\ RequestThrows(VanishError("Request timeout", NoStatus), now + dt)
        /\ UNCHANGED <<apiKey, op, deadline>>

\* fetch rejects for any other reason.
FetchFail ==
    \E dt \in Elapsed :
        /\ pc = "fetch"
        /\ RequestThrows(VanishError("Request failed: TypeError: fetch failed", NoStatus),
                         now + dt)
        /\ UNCHANGED <<apiKey, op, deadline, timedOut>>

\* !response.ok and response.json() settled without the timer firing.
ErrorBodyRead ==
    \E dt \in Elapsed :
        /\ pc = "errBody"
        /\ RequestThrows(VanishError(ErrorMessage(response.body, StatusText(response.status)),
                                     response.status), now + dt)
        /\ UNCHANGED <<apiKey, op, deadline, timedOut>>

\* The abort timer fires while the error body is being read: json() rejects
\* inside the inner try, whose catch takes statusText.
ErrorBodyAbort ==
    \E dt \in Elapsed :
        /\ pc = "errBody"
        /\ timedOut' = TRUE
        /\ RequestThrows(VanishError(StatusText(response.status), response.status), now + dt)
        /\ UNCHANGED <<apiKey, op, deadline>>

\* response.ok and response.json() / response.arrayBuffer() settled without
\* the timer firing.
BodyRead ==
    \E dt \in Elapsed :
        /\ pc \in {"jsonBody", "rawBody"}
        /\ IF pc = "jsonBody" /\ response.body.kind \in {"absent", "garbage"}
           THEN RequestThrows(VanishError("Request failed: SyntaxError: Unexpected token",
                                          NoStatus), now + dt)
           ELSE RequestReturns(response.body, now + dt)
        /\ UNCHANGED <<apiKey, op, deadline, timedOut>>

\* The abort timer fires while the success body is being read.
BodyAbort ==
    \E dt \in Elapsed :
        /\ pc \in {"jsonBody", "rawBody"}
        /\ timedOut' = TRUE
        /\ RequestThrows(VanishError("Request timeout", NoStatus), now + dt)
        /\ UNCHANGED <<apiKey, op, deadline>>

\* setTimeout(resolve, interval) fires; the loop condition is read again.
SleepDone ==
    /\ pc = "sleep"
    /\ PollLoop(now + op.interval, deadline, fetches, callStart)
    /\ UNCHANGED <<apiKey, op, deadline, checks, checkDur, listError>>

\* The caller's await on the promise of the operation resumes with the
\* result; the locals of the invocation are gone and the client, which keeps
\* nothing but its configuration, is ready for the next call.
CallerResumes ==
    /\ pc = "done"
    /\ pc' = "idle"
    /\ op' = NoOp
    /\ req' = NoRequest
    /\ response' = NoResponse
    /\ outcome' = NoOutcome
    /\ fetches' = 0
    /\ now' = 0
    /\ deadline' = 0
    /\ checks' = <<>>
    /\ callStart' = 0
    /\ checkDur' = 0
    /\ timedOut' = FALSE
    /\ reqError' = NoError
    /\ listError' = NoError
    /\ UNCHANGED apiKey

Settle ==
    \/ FetchResolve
    \/ FetchAbort
    \/ FetchFail
    \/ ErrorBodyRead
    \/ ErrorBodyAbort
    \/ BodyRead
    \/ BodyAbort

Invoke ==
    \/ getDomains
    \/ generateEmail
    \/ listEmails
    \/ getEmail
    \/ getAttachment
    \/ deleteEmail
    \/ deleteMailbox
    \/ pollForEmails

Next == Invoke \/ Settle \/ SleepDone \/ CallerResumes

Spec == Init /\ [][Next]_vars

\* The runtime settles every pending promise and fires every armed timer.
FairSpec == Spec /\ WF_vars(Settle) /\ WF_vars(SleepDone)


\* ------------------------------------------------------------------ claims
PollIsOn == op.name = "pollForEmails"
AllBaseline(s) == \A i \in 1 .. Len(s) : s[i] = "baseline"
Ceil(a, b) == (a + b - 1) \div b
HasAuthorization == "Authorization" \in DOMAIN req.headers
RequestSent == pc # "idle" /\ req # NoRequest
ErrorResponse == response.status # NoStatus /\ ~ResponseOk(response.status)

\* C1: when the listing answered the baseline total on the first N checks of
\* a poll and baseline + 1 with at least one item on check N+1, the poll has
\* returned the first item of that answer (as listEmails converts it) and
\* has made exactly N+1 listEmails calls: no state with that history has
\* more.
C1_PollReturnsFirstNewItem ==
    (/\ PollIsOn
     /\ Len(checks) >= 1
     /\ checks[Len(checks)] = "new"
     /\ AllBaseline(SubSeq(checks, 1, Len(checks) - 1)))
    => /\ pc = "done"
       /\ outcome = Returned(ItemValue(ConvertData(response.body.data)[1]))
       /\ fetches = Len(checks)

C1_Witness ==
    /\ PollIsOn
    /\ checks = <<"baseline", "baseline", "new">>
    /\ pc = "done"
    /\ outcome.kind = "returned"
    /\ Len(response.body.data) = 2

\* C2 (safety part): while every answer of a poll has been the baseline
\* total and no call has failed, the poll has made at most
\* ceil(timeout / interval) listEmails calls, and if it has ended it has
\* returned null with the deadline elapsed.
C2_ExhaustionBound ==
    (PollIsOn /\ AllBaseline(checks) /\ listError = NoError)
    => /\ fetches <= Ceil(op.timeout, op.interval)
       /\ pc = "done" => (outcome = Returned(NullValue) /\ now >= deadline)

\* C2: the safety part in every state, and every poll in progress comes to
\* an end.
C2_PollExhaustion ==
    /\ []C2_ExhaustionBound
    /\ (PollIsOn /\ pc # "done") ~> (pc = "done")

C2_Witness ==
    /\ PollIsOn
    /\ pc = "done"
    /\ AllBaseline(checks)
    /\ Len(checks) >= 3
    /\ fetches = Ceil(op.timeout, op.interval)
    /\ outcome = Returned(NullValue)

\* C3: once a listEmails call of a poll has thrown, the poll has ended by
\* throwing that very error, the failed call is its last one, and no time
\* has passed since the failure (no sleep).
C3_PollPropagatesListError ==
    (PollIsOn /\ listError # NoError)
    => /\ pc = "done"
       /\ outcome = Thrown(listError)
       /\ fetches = Len(checks) + 1
       /\ now = callStart + checkDur

C3_Witness ==
    /\ PollIsOn
    /\ listError # NoError
    /\ Len(checks) >= 2
    /\ pc = "done"

\* C4: whenever the abort timer has fired on a request, the operation has
\* ended by throwing VanishError("Request timeout") with no status code.
C4_TimeoutRaisesRequestTimeout ==
    timedOut => (pc = "done" /\ outcome = Thrown(VanishError("Request timeout", NoStatus)))

\* C5 as stated: after a non-success response the operation has thrown a
\* VanishError with the response's status, whose message is the error field
\* of the body when the body was read, parsed and has one, and the reason
\* phrase when the body is absent or unparsable.
C5_ErrorFieldWheneverPresent ==
    (pc = "done" /\ ErrorResponse)
    => /\ outcome.kind = "thrown"
       /\ outcome.error.class = "VanishError"
       /\ outcome.error.statusCode = response.status
       /\ (~timedOut /\ response.body.kind = "object" /\ response.body.error # Undefined)
            => outcome.error.message = response.body.error
       /\ (timedOut \/ response.body.kind \in {"absent", "garbage"})
            => outcome.error.message = StatusText(response.status)

\* C5 amended: the message is the error field when the body was read and
\* parsed to an object whose error field is a non-empty string, and the
\* reason phrase in every other case (body absent, unparsable, not read in
\* time, null, or an object whose error field is missing or empty).
C5_ErrorFieldWhenNonEmpty ==
    (pc = "done" /\ ErrorResponse)
    => /\ outcome.kind = "thrown"
       /\ outcome.error.class = "VanishError"
       /\ outcome.error.statusCode = response.status
       /\ outcome.error.message =
            IF ~timedOut /\ response.body.kind = "object"
               /\ response.body.error # Undefined /\ response.body.error # ""
            THEN response.body.error
            ELSE StatusText(response.status)

C5_Witness ==
    /\ pc = "done"
    /\ response.status = 404
    /\ response.body.kind = "object"
    /\ response.body.error = "bad id"
    /\ outcome = Thrown(VanishError("bad id", 404))

\* C6 as stated: every request sent carries Authorization: Bearer <key> when
\* a key was given to the constructor, and no Authorization header when
\* none was.
C6_BearerWheneverSupplied ==
    RequestSent
    => IF apiKey # Undefined
       THEN HasAuthorization /\ req.headers["Authorization"] = "Bearer " \o apiKey
       ELSE ~HasAuthorization

\* C6 amended: every request sent carries Authorization: Bearer <key> when a
\* non-empty key was given to the constructor, and no Authorization header
\* when the key is absent or the empty string.
C6_BearerWhenNonEmpty ==
    RequestSent
    => IF apiKey # Undefined /\ apiKey # ""
       THEN HasAuthorization /\ req.headers["Authorization"] = "Bearer " \o apiKey
       ELSE ~HasAuthorization

C6_Witness ==
    /\ apiKey = "secret"
    /\ op.name = "getEmail"
    /\ pc = "fetch"
    /\ req.headers["Authorization"] = "Bearer secret"

\* C7: whatever a public operation throws is a VanishError.
C7_OnlyVanishErrorEscapes ==
    outcome.kind = "thrown" => outcome.error.class = "VanishError"

\* C8: the POST /mailbox request of generateEmail has a body exactly when
\* the domain or the prefix option holds a value.
C8_BodyOnlyWhenOptionPresent ==
    (op.name = "generateEmail" /\ pc # "idle")
    => (req.body.present
        <=> \E k \in DOMAIN op.options.obj : op.options.obj[k] # Undefined)

\* C9: an operation other than pollForEmails has made exactly one fetch call
\* from its invocation on, and once its request has thrown, the operation
\* has ended by throwing that error.
C9_OneRequestPerOperation ==
    (op.name \in Operations \ {"pollForEmails"})
    => /\ fetches = 1
       /\ reqError # NoError => (pc = "done" /\ outcome = Thrown(reqError))

C9_Witness ==
    /\ op.name = "deleteEmail"
    /\ pc = "done"
    /\ timedOut
    /\ reqError # NoError
    /\ fetches = 1

\* C10: every listEmails call of a poll began before the deadline, and a
\* poll that has ended did so no later than the deadline plus one interval
\* plus the duration of its last check.
C10_NoCallPastDeadline ==
    PollIsOn
    => /\ fetches > 0 => callStart < deadline
       /\ pc = "done" => now <= deadline + op.interval + checkDur

C10_Witness ==
    /\ PollIsOn
    /\ pc = "done"
    /\ fetches >= 2
    /\ checkDur >= 1
    /\ now = deadline + op.interval + checkDur - 1

====
